---- MODULE Spec2Model ----
(***************************************************************************)
(* Search and retrieval core of the transcript server: the module state    *)
(* of search.ts (index, episodes), its exported operations                 *)
(* (initializeIndex, searchTranscripts, getEpisode, listEpisodes), the     *)
(* loader and snippet extraction of loader.ts, and the server process of   *)
(* index.ts (startup and the CallTool handler).  Strings are sequences of  *)
(* one-character strings, so that toLowerCase, indexOf, slice, split and   *)
(* trim are computed as JavaScript computes them.                          *)
(*                                                                         *)
(* Spec is search.ts under any caller of its exports; ServerSpec is the    *)
(* process that index.ts starts; HttpSpec is the session handling of the   *)
(* HTTP mode listed in README.md.                                          *)
(***************************************************************************)
EXTENDS Integers, Sequences, FiniteSets, TLC

VARIABLES index, episodes, op, args, ret, err, pc, mode, inits,
          transports, created, requests

\* index, episodes: the module state of search.ts.  op, args, ret, err: the
\* call being answered.  pc, mode: the position of the server process and
\* the mode it runs in.  inits: how many times initializeIndex has run.
\* transports, created, requests: the session map of the HTTP mode, the
\* transport objects built so far and the route handlers in flight.
vars ==
  <<index, episodes, op, args, ret, err, pc, mode, inits,
    transports, created, requests>>

(***************************************************************************)
(* Bounds of the model.                                                    *)
(***************************************************************************)
MaxDocs == 3

MaxLimit == 3

MaxHits == 2

MaxSnippetLength == 6

MaxInits == 2

MaxTransports == 2

MaxRequests == 2

(***************************************************************************)
(* JavaScript strings.                                                     *)
(***************************************************************************)
Min(a, b) == IF a < b THEN a ELSE b

Max(a, b) == IF a > b THEN a ELSE b

\* String.prototype.toLowerCase on one character of the alphabet in use.
toLowerChar(c) ==
  CASE c = "A" -> "a"
    [] c = "B" -> "b"
    [] c = "C" -> "c"
    [] OTHER -> c

toLowerCase(s) == [i \in 1..Len(s) |-> toLowerChar(s[i])]

\* UTF-16 code unit of a character, the key of the default Array sort.
charCode(c) ==
  CASE c = "\n" -> 10
    [] c = " " -> 32
    [] c = "." -> 46
    [] c = "A" -> 65
    [] c = "B" -> 66
    [] c = "C" -> 67
    [] c = "a" -> 97
    [] c = "b" -> 98
    [] c = "c" -> 99
    [] c = "w" -> 119
    [] c = "x" -> 120
    [] OTHER -> 121

\* The characters matched by \s and removed by trim().
isWhitespace(c) == c \in {" ", "\n"}

\* String.prototype.indexOf(needle): 0-based position of the first
\* occurrence, -1 when there is none.
indexOf(hay, needle) ==
  LET hits == {p \in 0..(Len(hay) - Len(needle)) :
                 \A k \in 1..Len(needle) : hay[p + k] = needle[k]}
  IN IF hits = {} THEN -1
     ELSE CHOOSE p \in hits : \A q \in hits : p <= q

\* String.prototype.includes(needle).
includes(hay, needle) == indexOf(hay, needle) # -1

\* String.prototype.slice(from, to): negative indexes count from the end,
\* both are clamped to the string.
slice(s, from, to) ==
  LET n == Len(s)
      a == IF from < 0 THEN Max(n + from, 0) ELSE Min(from, n)
      b == IF to < 0 THEN Max(n + to, 0) ELSE Min(to, n)
  IN IF a >= b THEN <<>> ELSE SubSeq(s, a + 1, b)

\* String.prototype.trim().
trim(s) ==
  LET keep == {i \in 1..Len(s) : ~isWhitespace(s[i])}
  IN IF keep = {} THEN <<>>
     ELSE LET lo == CHOOSE i \in keep : \A j \in keep : i <= j
              hi == CHOOSE i \in keep : \A j \in keep : i >= j
          IN SubSeq(s, lo, hi)

\* String.prototype.split(/\s+/): the pieces between maximal runs of
\* whitespace, with an empty piece before a leading and after a trailing run.
RECURSIVE splitFrom(_, _, _, _)
splitFrom(s, i, cur, pieces) ==
  IF i > Len(s) THEN Append(pieces, cur)
  ELSE IF isWhitespace(s[i])
       THEN IF i > 1 /\ isWhitespace(s[i - 1])
            THEN splitFrom(s, i + 1, cur, pieces)
            ELSE splitFrom(s, i + 1, <<>>, Append(pieces, cur))
       ELSE splitFrom(s, i + 1, Append(cur, s[i]), pieces)

splitWhitespace(s) == splitFrom(s, 1, <<>>, <<>>)

\* The comparison of the default Array sort: code-unit lexicographic order.
RECURSIVE lexLess(_, _)
lexLess(a, b) ==
  IF b = <<>> THEN FALSE
  ELSE IF a = <<>> THEN TRUE
  ELSE IF charCode(Head(a)) # charCode(Head(b))
       THEN charCode(Head(a)) < charCode(Head(b))
       ELSE lexLess(Tail(a), Tail(b))

\* Array.prototype.sort() without comparator (stable insertion).
RECURSIVE insertSorted(_, _)
insertSorted(x, s) ==
  IF s = <<>> THEN <<x>>
  ELSE IF lexLess(x, Head(s)) THEN <<x>> \o s
       ELSE <<Head(s)>> \o insertSorted(x, Tail(s))

RECURSIVE sort(_)
sort(s) ==
  IF s = <<>> THEN <<>>
  ELSE insertSorted(s[Len(s)], sort(SubSeq(s, 1, Len(s) - 1)))

Ellipsis == <<".", ".", ".">>

(***************************************************************************)
(* loader.ts: extractSnippet.                                              *)
(***************************************************************************)
\* Characters skipped at the head of a transcript when no term matches.
AdSkip == 2000

\* A line break this close to the window start snaps the snippet to it.
NewlineWindow == 100

\* The snippet length searchTranscripts asks for.
SearchSnippetLength == 600

\* One turn of the loop over searchTerms: pos replaces bestPosition when it
\* is a match and the smallest so far.
betterPosition(bestPosition, pos) ==
  IF pos # -1 /\ (bestPosition = -1 \/ pos < bestPosition)
  THEN pos ELSE bestPosition

\* The loop over searchTerms that keeps the smallest match position.
RECURSIVE findBestPosition(_, _, _)
findBestPosition(lowerContent, searchTerms, bestPosition) ==
  IF searchTerms = <<>> THEN bestPosition
  ELSE findBestPosition(
         lowerContent, Tail(searchTerms),
         betterPosition(bestPosition,
                        indexOf(lowerContent, toLowerCase(Head(searchTerms)))))

\* No term matched: the text after the leading advertisements.
snippetAfterAds(content, startAfterAds, snippetLength) ==
  slice(content, startAfterAds, startAfterAds + snippetLength) \o Ellipsis

\* snippet.slice(newlinePos + 1) when a line break is near the window start.
snapToNewline(snippet, newlinePos) ==
  IF newlinePos # -1 /\ newlinePos < NewlineWindow
  THEN slice(snippet, newlinePos + 1, Len(snippet))
  ELSE snippet

\* The window content.slice(start, end) with its ellipsis marks, trimmed.
markSnippet(content, start, end, snippet) ==
  trim((IF start > 0
        THEN Ellipsis \o snapToNewline(snippet, indexOf(snippet, <<"\n">>))
        ELSE snippet)
       \o (IF end < Len(content) THEN Ellipsis ELSE <<>>))

\* The window of halfLength characters on each side of the match.
snippetAround(content, bestPosition, halfLength) ==
  markSnippet(content,
              Max(0, bestPosition - halfLength),
              Min(Len(content), bestPosition + halfLength),
              slice(content,
                    Max(0, bestPosition - halfLength),
                    Min(Len(content), bestPosition + halfLength)))

\* The two branches of extractSnippet on the match position found.
snippetAt(content, bestPosition, snippetLength) ==
  IF bestPosition = -1
  THEN snippetAfterAds(content, Min(AdSkip, Len(content)), snippetLength)
  ELSE snippetAround(content, bestPosition, snippetLength \div 2)

extractSnippet(content, searchTerms, snippetLength) ==
  snippetAt(content,
            findBestPosition(toLowerCase(content), searchTerms, -1),
            snippetLength)

(***************************************************************************)
(* loader.ts: loadTranscripts.  A directory is the list of its files in    *)
(* the order readdir enumerates them; a file is [name, content].           *)
(***************************************************************************)
TxtExt == <<".", "t", "x", "t">>

\* String.prototype.endsWith(".txt").
endsWithTxt(file) ==
  Len(file) >= Len(TxtExt)
    /\ SubSeq(file, Len(file) - Len(TxtExt) + 1, Len(file)) = TxtExt

\* String.prototype.replace(".txt", ""): removes the first occurrence.
replaceTxt(file) ==
  LET pos == indexOf(file, TxtExt)
  IN IF pos = -1 THEN file
     ELSE slice(file, 0, pos) \o slice(file, pos + Len(TxtExt), Len(file))

\* path.join(transcriptsPath, file), kept as the pair it is built from.
joinPath(transcriptsPath, file) == <<transcriptsPath, file>>

TranscriptsPath == "./transcripts"

RECURSIVE loadFiles(_)
loadFiles(txtFiles) ==
  IF txtFiles = <<>> THEN <<>>
  ELSE LET file == Head(txtFiles)
       IN <<[guest |-> replaceTxt(file.name),
             content |-> file.content,
             path |-> joinPath(TranscriptsPath, file.name)]>>
            \o loadFiles(Tail(txtFiles))

loadTranscripts(files) ==
  loadFiles(SelectSeq(files, LAMBDA f : endsWithTxt(f.name)))

(***************************************************************************)
(* search.ts: the FlexSearch document index.  The library is outside the   *)
(* repository: the index keeps the documents added to it, and a search     *)
(* answers, per indexed field, some list of distinct ids of documents in   *)
(* which a word of the query occurs in that field.                         *)
(***************************************************************************)
NullIndex == [built |-> FALSE, store |-> <<>>]

\* Mutation: the loaded episodes are appended to the episodes held.
appendEpisodes(held, loadedEpisodes) == held \o loadedEpisodes

\* episodes = loadedEpisodes: the list held before is dropped.
assignEpisodes(held, loadedEpisodes) == loadedEpisodes

\* new FlexSearch.Document(...) followed by index.add of every episode.
buildIndex(loadedEpisodes) == [built |-> TRUE, store |-> loadedEpisodes]

Range(s) == {s[i] : i \in DOMAIN s}

queryWords(query) ==
  {w \in Range(splitWhitespace(toLowerCase(query))) : w # <<>>}

fieldValue(episode, field) ==
  IF field = "guest" THEN episode.guest ELSE episode.content

fieldHits(idx, field, query) ==
  {idx.store[i].guest : i \in
     {j \in DOMAIN idx.store :
        \E w \in queryWords(query) :
          includes(toLowerCase(fieldValue(idx.store[j], field)), w)}}

\* The lists of at most n distinct elements of S.
RECURSIVE distinctSeqs(_, _)
distinctSeqs(S, n) ==
  IF n <= 0 THEN {<<>>}
  ELSE LET shorter == distinctSeqs(S, n - 1)
       IN shorter \cup
            UNION {{Append(s, x) : x \in S \ Range(s)} :
                     s \in {t \in shorter : Len(t) = n - 1}}

\* index.search(query, {limit: limit * 2, enrich: true}): one entry per
\* field that matched, the guest field before the content field.
fieldResults(idx, field, query, limit) ==
  LET cap == IF limit * 2 > 0 THEN Min(limit * 2, MaxHits) ELSE MaxHits
  IN {[field |-> field, result |-> r] :
        r \in distinctSeqs(fieldHits(idx, field, query), cap) \ {<<>>}}

indexSearch(idx, query, limit) ==
  LET guestField == fieldResults(idx, "guest", query, limit)
      contentField == fieldResults(idx, "content", query, limit)
  IN {<<>>}
       \cup {<<g>> : g \in guestField}
       \cup {<<c>> : c \in contentField}
       \cup {<<g, c>> : g \in guestField, c \in contentField}

(***************************************************************************)
(* search.ts: searchTranscripts.                                           *)
(***************************************************************************)
NotInitialized == "Search index not initialized"

\* query.toLowerCase().split(/\s+/).filter(t => t.length > 2)
searchTermsOf(query) ==
  SelectSeq(splitWhitespace(toLowerCase(query)), LAMBDA t : Len(t) > 2)

\* Mutation: the set of seen guests is never consulted.
alreadySeenNever(seenGuests, guest) == FALSE

\* seenGuests.has(guest)
alreadySeen(seenGuests, guest) == guest \in seenGuests

\* Mutation: a 0-based relevance.
relevanceZeroBased(searchResults) == Len(searchResults)

\* relevance: searchResults.length + 1
relevanceOf(searchResults) == Len(searchResults) + 1

\* Mutation: the loops stop one result late.
limitReachedLate(searchResults, limit) == Len(searchResults) > limit

\* searchResults.length >= limit, the test before each break
limitReached(searchResults, limit) == Len(searchResults) >= limit

\* Mutation: a match at position 0 is taken for no match.
hasMatchAfterStart(lowerContent, searchTerms) ==
  \E k \in DOMAIN searchTerms : indexOf(lowerContent, searchTerms[k]) > 0

\* Mutation: every() in place of some().
hasMatchEvery(lowerContent, searchTerms) ==
  \A k \in DOMAIN searchTerms : includes(lowerContent, searchTerms[k])

\* searchTerms.some((term) => lowerContent.includes(term))
hasMatch(lowerContent, searchTerms) ==
  \E k \in DOMAIN searchTerms : includes(lowerContent, searchTerms[k])

\* Mutation: the greatest position is taken, as findLast would.
lastPosition(found) == CHOOSE i \in found : \A j \in found : i >= j

\* The least element of a set of positions.
firstPosition(found) == CHOOSE i \in found : \A j \in found : i <= j

\* episodes.find((e) => e.guest === guest): the position of the first such
\* episode, 0 when there is none.
findByGuest(eps, guest) ==
  IF \E i \in DOMAIN eps : eps[i].guest = guest
  THEN firstPosition({i \in DOMAIN eps : eps[i].guest = guest})
  ELSE 0

\* seenGuests.add(guest); st is [seenGuests, searchResults].
markSeen(st, guest) ==
  [st EXCEPT !.seenGuests = st.seenGuests \cup {guest}]

\* searchResults.push({guest, snippet, relevance})
pushResult(st, guest, content, searchTerms) ==
  [st EXCEPT !.searchResults =
     Append(st.searchResults,
            [guest |-> guest,
             snippet |-> extractSnippet(content, searchTerms,
                                        SearchSnippetLength),
             relevance |-> relevanceOf(st.searchResults)])]

RECURSIVE walkItems(_, _, _, _, _)
\* After a push in the inner loop: break when the limit is reached.
nextItem(items, eps, searchTerms, limit, st) ==
  IF limitReached(st.searchResults, limit) THEN st
  ELSE walkItems(items, eps, searchTerms, limit, st)

\* The inner loop over fieldResult.result, whose items carry the guest as id.
walkItems(items, eps, searchTerms, limit, st) ==
  IF items = <<>> THEN st
  ELSE IF Head(items) = <<>> \/ alreadySeen(st.seenGuests, Head(items))
  THEN walkItems(Tail(items), eps, searchTerms, limit, st)
  ELSE IF findByGuest(eps, Head(items)) = 0
  THEN walkItems(Tail(items), eps, searchTerms, limit,
                 markSeen(st, Head(items)))
  ELSE nextItem(Tail(items), eps, searchTerms, limit,
                pushResult(markSeen(st, Head(items)), Head(items),
                           eps[findByGuest(eps, Head(items))].content,
                           searchTerms))

RECURSIVE walkFields(_, _, _, _, _)
\* After a field in the outer loop: break when the limit is reached.
nextField(results, eps, searchTerms, limit, st) ==
  IF limitReached(st.searchResults, limit) THEN st
  ELSE walkFields(results, eps, searchTerms, limit, st)

\* The outer loop over the field results of the index.
walkFields(results, eps, searchTerms, limit, st) ==
  IF results = <<>> THEN st
  ELSE nextField(Tail(results), eps, searchTerms, limit,
                 walkItems(Head(results).result, eps, searchTerms, limit, st))

RECURSIVE fallbackScan(_, _, _, _, _)
\* After a push in the fallback loop: break when the limit is reached.
nextEpisode(eps, i, searchTerms, limit, st) ==
  IF limitReached(st.searchResults, limit) THEN st
  ELSE fallbackScan(eps, i, searchTerms, limit, st)

\* The fallback loop over episodes, from position i on.
fallbackScan(eps, i, searchTerms, limit, st) ==
  IF i > Len(eps) THEN st
  ELSE IF alreadySeen(st.seenGuests, eps[i].guest)
  THEN fallbackScan(eps, i + 1, searchTerms, limit, st)
  ELSE IF ~hasMatch(toLowerCase(eps[i].content), searchTerms)
  THEN fallbackScan(eps, i + 1, searchTerms, limit, st)
  ELSE nextEpisode(eps, i + 1, searchTerms, limit,
                   pushResult(markSeen(st, eps[i].guest), eps[i].guest,
                              eps[i].content, searchTerms))

\* Mutation: the fallback pass runs whatever the index pass found.
fallbackAlways(eps, searchTerms, limit, st) ==
  fallbackScan(eps, 1, searchTerms, limit, st)

\* The fallback pass runs when the index pass left room.
fallbackPass(eps, searchTerms, limit, st) ==
  IF Len(st.searchResults) < limit
  THEN fallbackScan(eps, 1, searchTerms, limit, st)
  ELSE st

\* The index pass and the fallback pass.
collectResults(eps, searchTerms, limit, results) ==
  fallbackPass(eps, searchTerms, limit,
               walkFields(results, eps, searchTerms, limit,
                          [seenGuests |-> {}, searchResults |-> <<>>]))

\* Mutation: the null check of the index is missing.
searchTranscriptsUnguarded(idx, eps, query, limit, results) ==
  [err |-> "",
   ret |-> collectResults(eps, searchTermsOf(query), limit,
                          results).searchResults]

\* results is what index.search answered (unused when the index is null).
searchTranscripts(idx, eps, query, limit, results) ==
  IF ~idx.built THEN [err |-> NotInitialized, ret |-> <<>>]
  ELSE [err |-> "",
        ret |-> collectResults(eps, searchTermsOf(query), limit,
                               results).searchResults]

(***************************************************************************)
(* search.ts: getEpisode and listEpisodes.                                 *)
(***************************************************************************)
\* Mutation: the last match is returned, not the first.
findLast(eps, found) ==
  IF found = {} THEN <<>>
  ELSE <<eps[lastPosition(found)]>>

\* episodes.find(pred), given the set of positions that satisfy pred:
\* <<episode>> for the first of them, <<>> for undefined.
findFirst(eps, found) ==
  IF found = {} THEN <<>>
  ELSE <<eps[firstPosition(found)]>>

\* Mutation: the partial match is tried without the exact match before it.
getEpisodePartialFirst(eps, guest) ==
  findFirst(eps,
    {i \in DOMAIN eps :
       includes(toLowerCase(eps[i].guest), toLowerCase(guest))})

\* Mutation: the guests are compared without lower-casing them.
getEpisodeCaseSensitive(eps, guest) ==
  LET exact == findFirst(eps, {i \in DOMAIN eps : eps[i].guest = guest})
  IN IF exact # <<>> THEN exact
     ELSE findFirst(eps,
            {i \in DOMAIN eps : includes(eps[i].guest, guest)})

\* The result is <<episode>>, or <<>> for null.
getEpisode(eps, guest) ==
  LET exact == findFirst(eps,
                 {i \in DOMAIN eps :
                    toLowerCase(eps[i].guest) = toLowerCase(guest)})
  IN IF exact # <<>> THEN exact
     ELSE findFirst(eps,
            {i \in DOMAIN eps :
               includes(toLowerCase(eps[i].guest), toLowerCase(guest))})

\* Mutation: the sort is missing.
listEpisodesUnsorted(eps) == [i \in DOMAIN eps |-> eps[i].guest]

listEpisodes(eps) == sort([i \in DOMAIN eps |-> eps[i].guest])

\* Mutation: sort reorders the corpus itself, by guest.
episodesSortedInPlace(eps) ==
  [i \in DOMAIN eps |->
     eps[firstPosition({j \in DOMAIN eps : eps[j].guest = listEpisodes(eps)[i]})]]

\* The corpus after listEpisodes: Array.prototype.sort reorders its receiver
\* in place, and the receiver is the array that map built, not episodes.
episodesAfterSort(eps) == eps

(***************************************************************************)
(* index.ts: the CallTool request handler.  The arguments of a request are *)
(* a record that holds the fields the client sent; a result is             *)
(* [isError, text], its text kept as the template it is built from, the    *)
(* value interpolated into it and the list of items that follow.           *)
(***************************************************************************)
DefaultLimit == 10

MaxSuggestions == 5

CannotReadToLowerCase ==
  "Cannot read properties of undefined (reading 'toLowerCase')"

\* args.limit || 10: an absent limit and the falsy limit 0 become 10.
limitOrDefault(arguments) ==
  IF "limit" \in DOMAIN arguments /\ arguments.limit # 0
  THEN arguments.limit
  ELSE DefaultLimit

textOf(template, subject, items) ==
  [template |-> template, subject |-> subject, items |-> items]

\* A result returned from inside the switch: no isError field.
textResult(template, subject, items) ==
  [isError |-> FALSE, text |-> textOf(template, subject, items)]

\* Mutation: the catch block answers without the error flag.
errorResultUnflagged(message) ==
  [isError |-> FALSE, text |-> textOf("Error: ", message, <<>>)]

\* The catch block: the message of the fault, flagged as an error.
errorResult(message) ==
  [isError |-> TRUE, text |-> textOf("Error: ", message, <<>>)]

\* results.map((r, i) => `## ${i + 1}. ${r.guest}\n\n${r.snippet}\n`)
formattedResults(results) ==
  [i \in DOMAIN results |->
     [number |-> i, guest |-> results[i].guest,
      snippet |-> results[i].snippet]]

\* case "search_transcripts"; out is what searchTranscripts answered or threw.
searchResponse(query, out) ==
  IF out.err # "" THEN errorResult(<<out.err>>)
  ELSE IF Len(out.ret) = 0
  THEN textResult("No results found for ", query, <<>>)
  ELSE textResult("Found relevant episodes for ", query,
                  formattedResults(out.ret))

searchTool(idx, eps, arguments, results) ==
  searchResponse(arguments.query,
                 searchTranscripts(idx, eps, arguments.query,
                                   limitOrDefault(arguments), results))

\* guest.toLowerCase().split(" ")[0]
firstWord(guest) ==
  IF indexOf(toLowerCase(guest), <<" ">>) = -1 THEN toLowerCase(guest)
  ELSE slice(toLowerCase(guest), 0, indexOf(toLowerCase(guest), <<" ">>))

\* allGuests.filter(g => g.toLowerCase().includes(...)).slice(0, 5)
suggestionsFor(allGuests, guest) ==
  slice(SelectSeq(allGuests,
                  LAMBDA g : includes(toLowerCase(g), firstWord(guest))),
        0, MaxSuggestions)

\* The two answers of case "get_episode" for a guest that was sent.
episodeResponse(eps, guest, episode) ==
  IF episode = <<>>
  THEN textResult("Episode not found. Did you mean: ", guest,
                  suggestionsFor(listEpisodes(eps), guest))
  ELSE textResult("# Episode: ", episode[1].guest, <<episode[1].content>>)

\* case "get_episode".  Without a guest argument the callbacks of find call
\* toLowerCase on undefined, which throws as soon as there is an episode to
\* test; over an empty corpus no callback runs and the guest is not found.
getEpisodeTool(eps, arguments) ==
  IF "guest" \in DOMAIN arguments
  THEN episodeResponse(eps, arguments.guest, getEpisode(eps, arguments.guest))
  ELSE IF eps = <<>>
  THEN textResult("Episode not found. Did you mean: ", <<"undefined">>, <<>>)
  ELSE errorResult(<<CannotReadToLowerCase>>)

\* case "list_episodes"
listEpisodesTool(eps) ==
  textResult("# Available Episodes", <<>>, listEpisodes(eps))

\* The handler: the switch on the tool name inside try/catch.
callTool(idx, eps, name, arguments, results) ==
  CASE name = "search_transcripts" -> searchTool(idx, eps, arguments, results)
    [] name = "get_episode" -> getEpisodeTool(eps, arguments)
    [] name = "list_episodes" -> listEpisodesTool(eps)
    [] OTHER -> errorResult(<<"Unknown tool: ", name>>)

(***************************************************************************)
(* loader.ts and index.ts: what startup reads.  A transcripts directory is *)
(* readable or not; reading an unreadable one throws.                      *)
(***************************************************************************)
ReadError == "ENOENT: no such file or directory, scandir"

DownloadError == "Failed to download"

\* loadTranscripts with its try/catch: the error of readdir is logged and
\* thrown again, and a listing without .txt files loads as an empty list.
tryLoadTranscripts(dir) ==
  IF dir.readable THEN [err |-> "", ret |-> loadTranscripts(dir.files)]
  ELSE [err |-> ReadError, ret |-> <<>>]

\* Mutation: the server is connected before the transcripts are loaded.
connectFirst(m) == "connect"

\* main: runSSE downloads the transcripts first, runStdio loads at once.
firstStep(m) ==
  IF m = "sse" THEN "downloadTranscripts" ELSE "loadTranscripts"

(***************************************************************************)
(* Inputs.                                                                 *)
(***************************************************************************)
\* The files a transcripts directory may hold.  "Ab.txt" and "ab.txt" load
\* as guests that differ in case only; "a.txtb.txt" and "ab.txt.txt" are
\* distinct names that load as the same guest; ".txt" loads as the empty
\* guest; "n.md" is not eligible.
Files ==
  { [name |-> <<"A", "b", ".", "t", "x", "t">>,
     content |-> <<"x", " ", "a", "B", "c">>],
    [name |-> <<"a", "b", ".", "t", "x", "t">>,
     content |-> <<"a", "b", "\n", "c">>],
    [name |-> <<"a", ".", "t", "x", "t", "b", ".", "t", "x", "t">>,
     content |-> <<"w", "a", "b", "c">>],
    [name |-> <<"a", "b", ".", "t", "x", "t", ".", "t", "x", "t">>,
     content |-> <<"a", "b", "c", "\n", "b">>],
    [name |-> <<".", "t", "x", "t">>,
     content |-> <<"a", "b", "c">>],
    [name |-> <<"n", ".", "m", "d">>,
     content |-> <<"a", "b", "c">>] }

\* The directory listings: at most MaxDocs distinct files, in any order.
Directories == distinctSeqs(Files, MaxDocs)

Queries ==
  { <<>>,
    <<"A", "b">>,
    <<"x", " ", "A", "B", "C">>,
    <<"w", "a", "b", " ", "\n", "a", "b", "c">>,
    <<"x", "y", "z">> }

Limits == -1..MaxLimit

GuestQueries ==
  { <<>>,
    <<"a", "b">>,
    <<"A", "b">>,
    <<"b">>,
    <<"a", "b", ".", "t", "x", "t">>,
    <<"x", "y", "z">> }

SnippetTexts ==
  { <<"x", "x", "a", "B", "c">>,
    <<"w", "x", "y", "z", "a", "b", "\n", "c", "d">>,
    <<" ", "a", "b", " ", "c">> }

SnippetTerms ==
  { <<>>,
    << <<"a", "b", "c">> >>,
    << <<"c", "d">>, <<"A", "b">> >>,
    << <<"b", " ", "c">> >>,
    << <<"z", "z", "z">> >> }

SnippetLengths == 0..MaxSnippetLength

\* The modes main runs in: MCP_MODE is "sse" or anything else.
Modes == {"stdio", "sse"}

\* The transcripts directory at startup: unreadable, or one of the listings.
TranscriptsDirectories ==
  {[readable |-> FALSE, files |-> <<>>]}
    \cup {[readable |-> TRUE, files |-> d] : d \in Directories}

\* The tool names a client may send; the last one names no tool.
ToolNames ==
  {"search_transcripts", "get_episode", "list_episodes", "delete_episode"}

SearchArguments ==
  {[query |-> q] : q \in Queries}
    \cup {[query |-> q, limit |-> n] : q \in Queries, n \in Limits}

\* Arguments that carry no guest.
NoGuest == [query |-> <<"a", "b">>]

GuestArguments == {[guest |-> g] : g \in GuestQueries} \cup {NoGuest}

\* The arguments sent with each tool name.
ArgumentsOf(name) ==
  CASE name = "search_transcripts" -> SearchArguments
    [] name = "get_episode" -> GuestArguments
    [] OTHER -> {NoGuest}

NoArgs ==
  [query |-> <<>>, limit |-> 0, results |-> <<>>, guest |-> <<>>,
   content |-> <<>>, searchTerms |-> <<>>, snippetLength |-> 0,
   name |-> "", arguments |-> <<>>, loadedEpisodes |-> <<>>]

(***************************************************************************)
(* The state machine.  The process runs one call at a time (a single       *)
(* JavaScript thread, no await inside the operations): op, args, ret and   *)
(* err hold the call being answered, op = "none" between two calls.        *)
(***************************************************************************)
Init ==
  /\ index = NullIndex
  /\ episodes = <<>>
  /\ op = "none"
  /\ args = NoArgs
  /\ ret = <<>>
  /\ err = ""
  /\ pc = "main"
  /\ mode = ""
  /\ inits = 0
  /\ transports = {}
  /\ created = <<>>
  /\ requests = <<>>

\* initializeIndex(loadedEpisodes) on a list that loadTranscripts returned.
InitializeIndex ==
  \E files \in Directories :
    LET loadedEpisodes == loadTranscripts(files)
    IN /\ op = "none"
       /\ inits < MaxInits
       /\ episodes' = assignEpisodes(episodes, loadedEpisodes)
       /\ index' = buildIndex(loadedEpisodes)
       /\ inits' = inits + 1
       /\ op' = "initializeIndex"
       /\ args' = [NoArgs EXCEPT !.loadedEpisodes = loadedEpisodes]
       /\ ret' = <<>>
       /\ err' = ""
       /\ UNCHANGED <<pc, mode,
                 transports, created, requests>>

SearchTranscripts ==
  \E query \in Queries, limit \in Limits :
    op = "none" /\ \E results \in (IF index.built THEN indexSearch(index, query, limit)
                    ELSE {<<>>}) :
      LET out == searchTranscripts(index, episodes, query, limit, results)
      IN /\ op' = "searchTranscripts"
         /\ args' = [NoArgs EXCEPT !.query = query, !.limit = limit,
                                   !.results = results]
         /\ ret' = out.ret
         /\ err' = out.err
         /\ UNCHANGED <<index, episodes, pc, mode, inits,
                 transports, created, requests>>

GetEpisode ==
  \E guest \in GuestQueries :
    /\ op = "none"
    /\ op' = "getEpisode"
    /\ args' = [NoArgs EXCEPT !.guest = guest]
    /\ ret' = getEpisode(episodes, guest)
    /\ err' = ""
    /\ UNCHANGED <<index, episodes, pc, mode, inits,
                 transports, created, requests>>

ListEpisodes ==
  /\ op = "none"
  /\ op' = "listEpisodes"
  /\ args' = NoArgs
  /\ ret' = listEpisodes(episodes)
  /\ err' = ""
  /\ episodes' = episodesAfterSort(episodes)
  /\ UNCHANGED <<index, pc, mode, inits,
                 transports, created, requests>>

ExtractSnippet ==
  \E content \in SnippetTexts, searchTerms \in SnippetTerms,
     snippetLength \in SnippetLengths :
    /\ op = "none"
    /\ op' = "extractSnippet"
    /\ args' = [NoArgs EXCEPT !.content = content,
                              !.searchTerms = searchTerms,
                              !.snippetLength = snippetLength]
    /\ ret' = extractSnippet(content, searchTerms, snippetLength)
    /\ err' = ""
    /\ UNCHANGED <<index, episodes, pc, mode, inits,
                 transports, created, requests>>

\* The call returns to its caller, which takes the result.
Return ==
  /\ op # "none"
  /\ op' = "none"
  /\ args' = NoArgs
  /\ ret' = <<>>
  /\ err' = ""
  /\ UNCHANGED <<index, episodes, pc, mode, inits,
                 transports, created, requests>>

Next ==
  \/ InitializeIndex
  \/ SearchTranscripts
  \/ GetEpisode
  \/ ListEpisodes
  \/ ExtractSnippet
  \/ Return

Spec == Init /\ [][Next]_vars

(***************************************************************************)
(* index.ts: the server process.  main picks runStdio or runSSE; both load *)
(* the transcripts, initialize the index and only then connect the server, *)
(* which answers tool calls one at a time.  An error thrown during startup *)
(* reaches main().catch, which exits the process.                          *)
(***************************************************************************)
Main ==
  /\ pc = "main"
  /\ \E m \in Modes :
       /\ mode' = m
       /\ pc' = firstStep(m)
  /\ UNCHANGED <<index, episodes, op, args, ret, err, inits,
                 transports, created, requests>>

\* runSSE: await downloadTranscripts(), which returns or throws.
DownloadTranscripts ==
  /\ pc = "downloadTranscripts"
  /\ \E downloaded \in BOOLEAN :
       /\ err' = IF downloaded THEN "" ELSE DownloadError
       /\ pc' = IF downloaded THEN "loadTranscripts" ELSE "exit"
  /\ op' = "downloadTranscripts"
  /\ args' = NoArgs
  /\ ret' = <<>>
  /\ UNCHANGED <<index, episodes, mode, inits,
                 transports, created, requests>>

\* const episodes = await loadTranscripts()
LoadTranscripts ==
  /\ pc = "loadTranscripts"
  /\ \E dir \in TranscriptsDirectories :
       /\ ret' = tryLoadTranscripts(dir).ret
       /\ err' = tryLoadTranscripts(dir).err
       /\ pc' = IF tryLoadTranscripts(dir).err = "" THEN "initializeIndex"
                ELSE "exit"
  /\ op' = "loadTranscripts"
  /\ args' = NoArgs
  /\ UNCHANGED <<index, episodes, mode, inits,
                 transports, created, requests>>

\* initializeIndex(episodes) on the list loadTranscripts returned.
StartInitializeIndex ==
  /\ pc = "initializeIndex"
  /\ episodes' = assignEpisodes(episodes, ret)
  /\ index' = buildIndex(ret)
  /\ inits' = inits + 1
  /\ op' = "initializeIndex"
  /\ args' = [NoArgs EXCEPT !.loadedEpisodes = ret]
  /\ ret' = <<>>
  /\ err' = ""
  /\ pc' = "connect"
  /\ UNCHANGED <<mode, transports, created, requests>>

\* server.connect(transport) in runStdio, httpServer.listen in runSSE.
Connect ==
  /\ pc = "connect"
  /\ pc' = "serving"
  /\ op' = "none"
  /\ args' = NoArgs
  /\ ret' = <<>>
  /\ err' = ""
  /\ UNCHANGED <<index, episodes, mode, inits,
                 transports, created, requests>>

\* One CallTool request through the handler of createMCPServer.
CallTool ==
  /\ pc = "serving"
  /\ op = "none"
  /\ \E name \in ToolNames :
       \E arguments \in ArgumentsOf(name) :
         \E results \in (IF name = "search_transcripts" /\ index.built
                         THEN indexSearch(index, arguments.query,
                                          limitOrDefault(arguments))
                         ELSE {<<>>}) :
           /\ args' = [NoArgs EXCEPT !.name = name,
                                     !.arguments = arguments,
                                     !.results = results]
           /\ ret' = callTool(index, episodes, name, arguments, results)
  /\ op' = "CallTool"
  /\ err' = ""
  /\ UNCHANGED <<index, episodes, pc, mode, inits,
                 transports, created, requests>>

\* The result is sent to the client.
Respond ==
  /\ pc = "serving"
  /\ op = "CallTool"
  /\ op' = "none"
  /\ args' = NoArgs
  /\ ret' = <<>>
  /\ err' = ""
  /\ UNCHANGED <<index, episodes, pc, mode, inits,
                 transports, created, requests>>

ServerNext ==
  \/ Main
  \/ DownloadTranscripts
  \/ LoadTranscripts
  \/ StartInitializeIndex
  \/ Connect
  \/ CallTool
  \/ Respond

ServerSpec == Init /\ [][ServerNext]_vars

(***************************************************************************)
(* README.md: the HTTP mode, runHTTP.  transports is the Map from session  *)
(* id to transport.  A transport object is [sessionId, onclose, closed];   *)
(* created lists the transport objects in the order they were built, and   *)
(* transport t, once a session id is assigned to it, has the session id t  *)
(* (randomUUID gives each transport an id of its own).  requests holds the *)
(* route handlers in flight: a handler runs up to its next await in one    *)
(* step, and other handlers and close events run between two steps.        *)
(***************************************************************************)
\* No mcp-session-id header, or a transport without session id: undefined.
NoSession == 0

\* A session id that no transport has.
UnknownSession == -1

\* The values of the mcp-session-id header: absent, unknown, or the id of a
\* transport built so far.
Headers == {NoSession, UnknownSession} \cup DOMAIN created

\* Map.prototype.has, get (0 for undefined), set and delete on a set of
\* <<key, value>> pairs.
mapHas(m, key) == \E p \in m : p[1] = key

mapGet(m, key) ==
  IF mapHas(m, key) THEN (CHOOSE p \in m : p[1] = key)[2] ELSE 0

mapSet(m, key, value) == {p \in m : p[1] # key} \cup {<<key, value>>}

mapDelete(m, key) == {p \in m : p[1] # key}

\* sessionId ? transports.get(sessionId) : undefined
lookup(m, sessionId) ==
  IF sessionId = NoSession THEN 0 ELSE mapGet(m, sessionId)

\* new StreamableHTTPServerTransport({sessionIdGenerator})
newTransport == [sessionId |-> NoSession, onclose |-> FALSE, closed |-> FALSE]

\* transport.onclose, the callback set in app.post: it deletes the entry of
\* the session id of the transport when the transport has one.
onclose(m, transport) ==
  IF transport.onclose /\ transport.sessionId # NoSession
  THEN mapDelete(m, transport.sessionId)
  ELSE m

\* The end of app.post: the transport is stored under its session id when it
\* has one that the map does not hold.
storeTransport(m, t, transport) ==
  IF transport.sessionId # NoSession /\ ~mapHas(m, transport.sessionId)
  THEN mapSet(m, transport.sessionId, t)
  ELSE m

Idle ==
  [kind |-> "idle", pc |-> "idle", sessionId |-> NoSession, transport |-> 0,
   status |-> 0]

handler(kind, at, sessionId, t, status) ==
  [kind |-> kind, pc |-> at, sessionId |-> sessionId, transport |-> t,
   status |-> status]

\* The process once runHTTP listens, here over an empty transcripts
\* directory; the session map does not read the corpus.
HttpInit ==
  /\ index = buildIndex(<<>>)
  /\ episodes = <<>>
  /\ op = "none"
  /\ args = NoArgs
  /\ ret = <<>>
  /\ err = ""
  /\ pc = "serving"
  /\ mode = "http"
  /\ inits = 1
  /\ transports = {}
  /\ created = <<>>
  /\ requests = [r \in 1..MaxRequests |-> Idle]

\* app.post("/mcp") up to its first await: the transport of the session is
\* looked up; without one a new transport is built and connected.
PostMcp(r) ==
  /\ requests[r] = Idle
  /\ \E sessionId \in Headers :
       IF lookup(transports, sessionId) = 0
       THEN /\ Len(created) < MaxTransports
            /\ created' = Append(created, newTransport)
            /\ requests' = [requests EXCEPT ![r] =
                 handler("POST", "connect", sessionId, Len(created) + 1, 0)]
       ELSE /\ created' = created
            /\ requests' = [requests EXCEPT ![r] =
                 handler("POST", "handleRequest", sessionId,
                         lookup(transports, sessionId), 0)]
  /\ UNCHANGED <<index, episodes, op, args, ret, err, pc, mode, inits,
                 transports>>

\* After await server.connect(transport): onclose is set.
PostConnected(r) ==
  /\ requests[r].kind = "POST"
  /\ requests[r].pc = "connect"
  /\ created' = [created EXCEPT ![requests[r].transport].onclose = TRUE]
  /\ requests' = [requests EXCEPT ![r].pc = "handleRequest"]
  /\ UNCHANGED <<index, episodes, op, args, ret, err, pc, mode, inits,
                 transports>>

\* transport.handleRequest(req, res, req.body), pending: an initialize
\* request gives an open transport without session id its session id.
PostHandleRequest(r) ==
  /\ requests[r].kind = "POST"
  /\ requests[r].pc = "handleRequest"
  /\ \E initialize \in BOOLEAN :
       created' =
         IF /\ initialize
            /\ created[requests[r].transport].sessionId = NoSession
            /\ ~created[requests[r].transport].closed
         THEN [created EXCEPT ![requests[r].transport].sessionId =
                 requests[r].transport]
         ELSE created
  /\ requests' = [requests EXCEPT ![r].pc = "store"]
  /\ UNCHANGED <<index, episodes, op, args, ret, err, pc, mode, inits,
                 transports>>

\* After await transport.handleRequest: the transport is stored.
PostStore(r) ==
  /\ requests[r].kind = "POST"
  /\ requests[r].pc = "store"
  /\ transports' = storeTransport(transports, requests[r].transport,
                                  created[requests[r].transport])
  /\ requests' = [requests EXCEPT ![r] = Idle]
  /\ UNCHANGED <<index, episodes, op, args, ret, err, pc, mode, inits,
                 created>>

\* app.get("/mcp"): 400 without a transport for the session id, else the
\* request is handed to the transport.
GetMcp(r) ==
  /\ requests[r] = Idle
  /\ \E sessionId \in Headers :
       requests' = [requests EXCEPT ![r] =
         IF lookup(transports, sessionId) = 0
         THEN handler("GET", "done", sessionId, 0, 400)
         ELSE handler("GET", "done", sessionId,
                      lookup(transports, sessionId), 200)]
  /\ UNCHANGED <<index, episodes, op, args, ret, err, pc, mode, inits,
                 transports, created>>

\* app.delete("/mcp") up to await transport.close(): close runs the onclose
\* callback.
DeleteMcp(r) ==
  /\ requests[r] = Idle
  /\ \E sessionId \in Headers :
       IF lookup(transports, sessionId) = 0
       THEN /\ requests' = [requests EXCEPT ![r] =
                 handler("DELETE", "done", sessionId, 0, 200)]
            /\ UNCHANGED <<transports, created>>
       ELSE /\ requests' = [requests EXCEPT ![r] =
                 handler("DELETE", "delete", sessionId,
                         lookup(transports, sessionId), 0)]
            /\ created' =
                 [created EXCEPT ![lookup(transports, sessionId)].closed =
                    TRUE]
            /\ transports' =
                 onclose(transports, created[lookup(transports, sessionId)])
  /\ UNCHANGED <<index, episodes, op, args, ret, err, pc, mode, inits>>

\* After await transport.close(): transports.delete(sessionId), status 200.
DeleteFinish(r) ==
  /\ requests[r].kind = "DELETE"
  /\ requests[r].pc = "delete"
  /\ transports' = mapDelete(transports, requests[r].sessionId)
  /\ requests' = [requests EXCEPT ![r].pc = "done", ![r].status = 200]
  /\ UNCHANGED <<index, episodes, op, args, ret, err, pc, mode, inits,
                 created>>

\* A transport is closed from outside the route handlers; its onclose
\* callback runs.
CloseTransport ==
  /\ \E t \in DOMAIN created :
       /\ ~created[t].closed
       /\ created' = [created EXCEPT ![t].closed = TRUE]
       /\ transports' = onclose(transports, created[t])
  /\ UNCHANGED <<index, episodes, op, args, ret, err, pc, mode, inits,
                 requests>>

\* The response of a handler has been sent.
Finish(r) ==
  /\ requests[r].pc = "done"
  /\ requests' = [requests EXCEPT ![r] = Idle]
  /\ UNCHANGED <<index, episodes, op, args, ret, err, pc, mode, inits,
                 transports, created>>

HttpNext ==
  \/ \E r \in 1..MaxRequests : PostMcp(r)
  \/ \E r \in 1..MaxRequests : PostConnected(r)
  \/ \E r \in 1..MaxRequests : PostHandleRequest(r)
  \/ \E r \in 1..MaxRequests : PostStore(r)
  \/ \E r \in 1..MaxRequests : GetMcp(r)
  \/ \E r \in 1..MaxRequests : DeleteMcp(r)
  \/ \E r \in 1..MaxRequests : DeleteFinish(r)
  \/ CloseTransport
  \/ \E r \in 1..MaxRequests : Finish(r)

HttpSpec == HttpInit /\ [][HttpNext]_vars

(***************************************************************************)
(* Properties of searchTranscripts.                                        *)
(***************************************************************************)
Searched == op = "searchTranscripts" /\ err = ""

\* The guests of a result list, in order.
guestsOf(results) == [i \in DOMAIN results |-> results[i].guest]

\* Some whitespace-separated token of the lower-cased query, longer than two
\* characters, is a literal substring of the lower-cased text.
tokenOccurs(query, text) ==
  \E t \in Range(splitWhitespace(toLowerCase(query))) :
    Len(t) > 2 /\ includes(toLowerCase(text), t)

\* C1 as stated: for every query and every integer limit N, a search on an
\* initialized index returns at most N results.
C1_AtMostLimitOriginal == Searched => Len(ret) <= args.limit

\* C1 amended: a search on an initialized index returns at most N results
\* when N >= 1, and at most one result when N <= 0 (the index pass appends
\* its first hit before it tests the limit).
C1_AtMostLimit == Searched => Len(ret) <= Max(args.limit, 1)

\* A search that stopped at its limit while another document still matched.
C1_Witness ==
  /\ Searched
  /\ args.limit >= 1
  /\ Len(ret) = args.limit
  /\ \E i \in DOMAIN episodes :
       /\ episodes[i].guest \notin Range(guestsOf(ret))
       /\ tokenOccurs(args.query, episodes[i].content)

\* C2: no two results of one search call have the same identity, also when
\* several documents of the corpus share an identity.
C2_UniqueIdentities ==
  Searched =>
    \A i, j \in DOMAIN ret : i # j => ret[i].guest # ret[j].guest

\* A search over a corpus in which two matching documents share an identity
\* that the index also answered in both of its fields.
C2_Witness ==
  /\ Searched
  /\ Len(ret) < args.limit
  /\ \E i, j \in DOMAIN episodes :
       /\ i < j
       /\ episodes[i].guest = episodes[j].guest
       /\ tokenOccurs(args.query, episodes[i].content)
       /\ tokenOccurs(args.query, episodes[j].content)
       /\ episodes[i].guest \in Range(guestsOf(ret))
  /\ Len(args.results) = 2
  /\ \E g \in Range(args.results[1].result) :
       g \in Range(args.results[2].result)

\* The elements of a list at their first occurrence, in order.
RECURSIVE firstOccurrences(_)
firstOccurrences(s) ==
  IF s = <<>> THEN <<>>
  ELSE LET rest == firstOccurrences(SubSeq(s, 1, Len(s) - 1))
           last == s[Len(s)]
       IN IF last \in Range(rest) THEN rest ELSE Append(rest, last)

\* The ids the index answered, field after field.
RECURSIVE flatten(_)
flatten(results) ==
  IF results = <<>> THEN <<>>
  ELSE Head(results).result \o flatten(Tail(results))

\* The guests of the documents on which a token of the query occurs and
\* which the index did not answer, in corpus order.
RECURSIVE fallbackGuests(_, _, _)
fallbackGuests(eps, query, indexed) ==
  IF eps = <<>> THEN <<>>
  ELSE LET e == Head(eps)
           rest == fallbackGuests(Tail(eps), query, indexed)
       IN IF e.guest \notin indexed /\ tokenOccurs(query, e.content)
          THEN <<e.guest>> \o rest ELSE rest

\* The ids the index answered that name a guest (an empty id is skipped).
indexedGuests ==
  SelectSeq(flatten(args.results), LAMBDA g : g # <<>>)

\* The order in which one search discovers guests.
discoveryOrder ==
  firstOccurrences(indexedGuests
                     \o fallbackGuests(episodes, args.query,
                                       Range(indexedGuests)))

\* C3: the relevance of the i-th result is i, and the results are in
\* discovery order: index matches as the index yields them, then fallback
\* matches in corpus order.
C3_RankIsPosition ==
  Searched =>
    /\ \A i \in DOMAIN ret : ret[i].relevance = i
    /\ Len(ret) <= Len(discoveryOrder)
    /\ guestsOf(ret) = SubSeq(discoveryOrder, 1, Len(ret))

\* A search whose first result came from the index and whose second came
\* from the fallback pass.
C3_Witness ==
  /\ Searched
  /\ Len(ret) >= 2
  /\ ret[1].guest \in Range(indexedGuests)
  /\ ret[2].guest \notin Range(indexedGuests)
  /\ ret[2].relevance = 2

\* C4: when the limit is at least the number of documents, every document
\* on whose text a token of the query occurs is among the results, whatever
\* the index pass answered.
C4_FallbackRecall ==
  (Searched /\ args.limit >= Len(episodes)) =>
    \A i \in DOMAIN episodes :
      tokenOccurs(args.query, episodes[i].content) =>
        episodes[i].guest \in Range(guestsOf(ret))

\* A search in which the index answered nothing and the fallback pass found
\* a document.
C4_Witness ==
  /\ Searched
  /\ args.limit >= Len(episodes)
  /\ args.results = <<>>
  /\ \E i \in DOMAIN episodes :
       /\ tokenOccurs(args.query, episodes[i].content)
       /\ episodes[i].guest \in Range(guestsOf(ret))

\* C5: on an initialized index, the empty query, and a query that the index
\* answers with nothing and none of whose terms is a substring of any text,
\* return the empty list and no error.
C5_NoMatchIsEmpty ==
  (op = "searchTranscripts" /\ index.built
     /\ \/ args.query = <<>>
        \/ /\ args.results = <<>>
           /\ \A i \in DOMAIN episodes :
                ~tokenOccurs(args.query, episodes[i].content))
    => (ret = <<>> /\ err = "")

\* A search for a term that occurs nowhere, over a corpus with documents and
\* with room for results.
C5_Witness ==
  /\ op = "searchTranscripts"
  /\ index.built
  /\ episodes # <<>>
  /\ args.limit >= 1
  /\ args.query # <<>>
  /\ args.results = <<>>
  /\ ret = <<>>
  /\ err = ""

\* C9: a search issued before the index was initialized fails with the
\* "not initialized" error, whatever the query and the limit.
C9_UninitializedFails ==
  (op = "searchTranscripts" /\ ~index.built) => err = NotInitialized

\* A search on the null index, answered with the error.
C9_Witness ==
  /\ op = "searchTranscripts"
  /\ ~index.built
  /\ args.query # <<>>
  /\ err = NotInitialized

(***************************************************************************)
(* Properties of getEpisode and listEpisodes.                              *)
(***************************************************************************)
\* The position of the first document whose guest equals that of document i
\* when case is ignored.
firstSameGuest(i) ==
  CHOOSE j \in DOMAIN episodes :
    /\ toLowerCase(episodes[j].guest) = toLowerCase(episodes[i].guest)
    /\ \A k \in DOMAIN episodes :
         toLowerCase(episodes[k].guest) = toLowerCase(episodes[i].guest)
           => j <= k

\* C6 as stated: for every document D of every corpus, getEpisode of D's
\* identity returns exactly D.
C6_RoundTripOriginal ==
  op = "getEpisode" =>
    \A i \in DOMAIN episodes :
      args.guest = episodes[i].guest => ret = <<episodes[i]>>

\* C6 amended: getEpisode of D's identity returns the first document in
\* corpus order whose identity equals D's when case is ignored; that is D
\* itself whenever no earlier document has such an identity.
C6_RoundTrip ==
  op = "getEpisode" =>
    \A i \in DOMAIN episodes :
      args.guest = episodes[i].guest =>
        /\ ret = <<episodes[firstSameGuest(i)]>>
        /\ (\A k \in 1..(i - 1) :
              toLowerCase(episodes[k].guest) # toLowerCase(episodes[i].guest))
             => ret = <<episodes[i]>>

\* A lookup by the identity of a document that is not the first of the
\* corpus, answered with that document.
C6_Witness ==
  /\ op = "getEpisode"
  /\ \E i \in DOMAIN episodes :
       /\ i > 1
       /\ args.guest = episodes[i].guest
       /\ ret = <<episodes[i]>>

\* C7 as stated: for every document D, getEpisode of D's lower-cased
\* identity returns D.
C7_LowerCaseOriginal ==
  op = "getEpisode" =>
    \A i \in DOMAIN episodes :
      args.guest = toLowerCase(episodes[i].guest) => ret = <<episodes[i]>>

\* C7 amended: getEpisode of D's lower-cased identity returns the first
\* document in corpus order whose identity equals D's when case is ignored;
\* that is D itself whenever no earlier document has such an identity.
C7_LowerCase ==
  op = "getEpisode" =>
    \A i \in DOMAIN episodes :
      args.guest = toLowerCase(episodes[i].guest) =>
        /\ ret = <<episodes[firstSameGuest(i)]>>
        /\ (\A k \in 1..(i - 1) :
              toLowerCase(episodes[k].guest) # toLowerCase(episodes[i].guest))
             => ret = <<episodes[i]>>

\* A lookup by a lower-cased identity that differs from the identity itself,
\* answered with the document.
C7_Witness ==
  /\ op = "getEpisode"
  /\ \E i \in DOMAIN episodes :
       /\ args.guest = toLowerCase(episodes[i].guest)
       /\ args.guest # episodes[i].guest
       /\ ret = <<episodes[i]>>

\* The number of positions of a list that hold x.
occurrences(s, x) == Cardinality({i \in DOMAIN s : s[i] = x})

\* The orders in which the documents of the corpus could have been loaded.
loadOrders ==
  {[i \in DOMAIN episodes |-> episodes[p[i]]] :
     p \in {q \in distinctSeqs(DOMAIN episodes, Len(episodes)) :
              Len(q) = Len(episodes)}}

\* The list is in code-unit order and holds each identity as often as the
\* corpus does, and every load order of the corpus gives the same list.
sortedIdentities ==
  /\ \A i, j \in DOMAIN ret : i < j => ~lexLess(ret[j], ret[i])
  /\ Len(ret) = Len(episodes)
  /\ \A i \in DOMAIN episodes :
       occurrences(ret, episodes[i].guest)
         = occurrences(guestsOf(episodes), episodes[i].guest)
  /\ \A eps \in loadOrders : listEpisodes(eps) = ret

earliestMatch(content, searchTerms) ==
  LET positions == {indexOf(toLowerCase(content), toLowerCase(searchTerms[k])) :
                      k \in DOMAIN searchTerms} \ {-1}
  IN IF positions = {} THEN -1
     ELSE CHOOSE p \in positions : \A q \in positions : p <= q

\* C10: when some term occurs in the text, the snippet contains, case
\* ignored, the whole of a term that occurs at the earliest match position.
C10_SnippetContainsTerm ==
  (op = "extractSnippet"
     /\ earliestMatch(args.content, args.searchTerms) # -1) =>
    \E k \in DOMAIN args.searchTerms :
      /\ indexOf(toLowerCase(args.content), toLowerCase(args.searchTerms[k]))
           = earliestMatch(args.content, args.searchTerms)
      /\ includes(toLowerCase(ret), toLowerCase(args.searchTerms[k]))

(***************************************************************************)
(* Properties of the CallTool handler and of startup.                      *)
(***************************************************************************)
SearchCalled == op = "CallTool" /\ args.name = "search_transcripts"

\* The limit of the request is absent, zero or negative.
limitMissingOrNonPositive(arguments) ==
  "limit" \notin DOMAIN arguments \/ arguments.limit <= 0

\* C11: a search request whose limit is missing, zero or negative is
\* answered exactly as the same request with limit 10 (over the same answer
\* of the index), and neither such a limit nor an empty query makes the
\* search fail.
C11_NonPositiveLimitIsDefault ==
  /\ (SearchCalled /\ limitMissingOrNonPositive(args.arguments)) =>
       /\ ~ret.isError
       /\ ret = searchTool(index, episodes,
                           [query |-> args.arguments.query,
                            limit |-> DefaultLimit],
                           args.results)
  /\ (SearchCalled /\ args.arguments.query = <<>>) => ~ret.isError

\* C12: loading the corpus fails fatally, the process exiting, when the
\* directory holds no eligible file as it does when the directory is
\* unreadable; an empty corpus is never indexed and served.
C12_EmptyCorpusIsFatal ==
  /\ (op = "loadTranscripts" /\ ret = <<>>) => (err # "" /\ pc = "exit")
  /\ pc \in {"connect", "serving"} => episodes # <<>>

\* C13: in both startup paths the index is initialized exactly once and
\* before the first tool call is handled: a tool call is handled only after
\* initializeIndex has run, on the index it built, and initializeIndex never
\* runs a second time.
C13_InitializedOnceBeforeServing ==
  /\ inits <= 1
  /\ (pc = "serving" \/ op = "CallTool") =>
       /\ inits = 1
       /\ index.built
       /\ index.store = episodes

\* A tool call answered by the server that runSSE started.
C13_Witness ==
  /\ op = "CallTool"
  /\ mode = "sse"
  /\ args.name = "list_episodes"
  /\ Len(ret.text.items) >= 2

(***************************************************************************)
(* Properties of the module state.                                         *)
(***************************************************************************)
\* C14: searchTranscripts, getEpisode and listEpisodes are pure reads: no
\* call of them changes the corpus (its documents and their order) or the
\* index; listEpisodes sorts a copy.
C14_QueriesArePureReads ==
  [][op' \in {"searchTranscripts", "getEpisode", "listEpisodes"} =>
       UNCHANGED <<index, episodes>>]_vars

\* A listing in sorted order of a corpus of three documents that is itself
\* not in sorted order, the index still holding the same documents.
C14_Witness ==
  /\ op = "listEpisodes"
  /\ Len(episodes) = 3
  /\ ret # guestsOf(episodes)
  /\ index.store = episodes

\* The fault that handling the request raises over the corpus eps and the
\* index idx, <<>> when it raises none.
faultOf(idx, eps, name, arguments) ==
  CASE name \notin {"search_transcripts", "get_episode", "list_episodes"} ->
         <<"Unknown tool: ", name>>
    [] name = "search_transcripts" /\ ~idx.built -> <<NotInitialized>>
    [] name = "get_episode" /\ "guest" \notin DOMAIN arguments
         /\ eps # <<>> -> <<CannotReadToLowerCase>>
    [] OTHER -> <<>>

\* C15: a tool call whose handling raises a fault (an unknown tool name, an
\* index that is not initialized, an exception in the core) is answered with
\* an error result that carries the message of that fault; the call changes
\* neither the corpus nor the index and the server keeps serving, so that
\* every later call is answered as if the faulty call had never been made.
C15_FaultsAreContained ==
  [][op' = "CallTool" =>
       /\ UNCHANGED <<index, episodes, pc, mode, inits>>
       /\ pc' = "serving"
       /\ err' = ""
       /\ ret'.isError
            = (faultOf(index, episodes, args'.name, args'.arguments) # <<>>)
       /\ ret'.isError =>
            /\ ret'.text.template = "Error: "
            /\ ret'.text.subject
                 = faultOf(index, episodes, args'.name, args'.arguments)
       /\ args'.name = "search_transcripts" =>
            callTool(NullIndex, <<>>, args'.name, args'.arguments, <<>>)
              = [isError |-> TRUE,
                 text |-> textOf("Error: ", <<NotInitialized>>, <<>>)]]_vars

\* A get_episode call without a guest that failed inside getEpisode, on a
\* corpus of two documents or more.
C15_Witness ==
  /\ op = "CallTool"
  /\ args.name = "get_episode"
  /\ ret.isError
  /\ ret.text.subject = <<CannotReadToLowerCase>>
  /\ Len(episodes) >= 2

\* A call of a tool that does not exist, answered with an error result.
C15_WitnessUnknownTool ==
  /\ op = "CallTool"
  /\ args.name = "delete_episode"
  /\ ret.isError

\* C16: initializeIndex replaces the corpus and the index: after it, also
\* when it runs a second time, episodes and the index hold exactly the
\* documents it was given, and every answer of searchTranscripts, getEpisode
\* and listEpisodes is made of documents of that corpus only.
C16_OnlyTheNewCorpus ==
  /\ op = "initializeIndex" =>
       /\ episodes = args.loadedEpisodes
       /\ index = [built |-> TRUE, store |-> args.loadedEpisodes]
  /\ index.built => index.store = episodes
  /\ Searched =>
       \A k \in DOMAIN ret :
         \E i \in DOMAIN episodes :
           /\ ret[k].guest = episodes[i].guest
           /\ ret[k].snippet
                = extractSnippet(episodes[i].content,
                                 searchTermsOf(args.query),
                                 SearchSnippetLength)
  /\ op = "getEpisode" =>
       (ret = <<>> \/ \E i \in DOMAIN episodes : ret = <<episodes[i]>>)
  /\ op = "listEpisodes" =>
       /\ Len(ret) = Len(episodes)
       /\ Range(ret) = Range(guestsOf(episodes))

\* A search answered from a corpus of one document that a second call of
\* initializeIndex installed.
C16_Witness ==
  /\ inits = 2
  /\ Searched
  /\ Len(episodes) = 1
  /\ Len(ret) = 1

(***************************************************************************)
(* Properties of documents that share an identity.                         *)
(***************************************************************************)
\* The positions of the documents whose guest is g.
positionsOf(g) == {i \in DOMAIN episodes : episodes[i].guest = g}

\* Two documents or more have the guest g.
sharedGuest(g) == Cardinality(positionsOf(g)) >= 2

earlierOf(g) == CHOOSE i \in positionsOf(g) : \A j \in positionsOf(g) : i <= j

laterOf(g) == CHOOSE i \in positionsOf(g) : \A j \in positionsOf(g) : i >= j

\* The snippet of the search being answered, taken from document i.
snippetFrom(i) ==
  extractSnippet(episodes[i].content, searchTermsOf(args.query),
                 SearchSnippetLength)

C17_WitnessLookup ==
  /\ op = "getEpisode"
  /\ sharedGuest(args.guest)
  /\ ret = <<episodes[earlierOf(args.guest)]>>
  /\ ret # <<episodes[laterOf(args.guest)]>>

(***************************************************************************)
(* Properties of getEpisode.                                               *)
(***************************************************************************)
\* The guest of document i equals q when case is ignored.
equalsAt(i, q) == toLowerCase(episodes[i].guest) = toLowerCase(q)

\* The guest of document i contains q when case is ignored.
containsAt(i, q) ==
  includes(toLowerCase(episodes[i].guest), toLowerCase(q))

\* C18: getEpisode(q) returns the first document in corpus order whose
\* identity equals q case-insensitively, also when the identity of an
\* earlier document contains q; when there is none, the first document in
\* corpus order whose identity contains q case-insensitively; when there is
\* none either, null.
C18_ResolutionOrder ==
  op = "getEpisode" =>
    /\ (\E i \in DOMAIN episodes : equalsAt(i, args.guest)) =>
         \E i \in DOMAIN episodes :
           /\ equalsAt(i, args.guest)
           /\ \A k \in 1..(i - 1) : ~equalsAt(k, args.guest)
           /\ ret = <<episodes[i]>>
    /\ ((\A i \in DOMAIN episodes : ~equalsAt(i, args.guest))
          /\ (\E i \in DOMAIN episodes : containsAt(i, args.guest))) =>
         \E i \in DOMAIN episodes :
           /\ containsAt(i, args.guest)
           /\ \A k \in 1..(i - 1) : ~containsAt(k, args.guest)
           /\ ret = <<episodes[i]>>
    /\ (\A i \in DOMAIN episodes : ~containsAt(i, args.guest)) =>
         ret = <<>>

\* A lookup by a query that two documents equal when case is ignored,
\* answered with the first of the two, which stands behind a document whose
\* identity only contains the query.
C18_Witness ==
  /\ op = "getEpisode"
  /\ \E i, j, k \in DOMAIN episodes :
       /\ i < j
       /\ j < k
       /\ ~equalsAt(i, args.guest)
       /\ containsAt(i, args.guest)
       /\ equalsAt(j, args.guest)
       /\ equalsAt(k, args.guest)
       /\ episodes[j] # episodes[k]
       /\ ret = <<episodes[j]>>

\* A lookup answered through the partial match.
C18_WitnessPartial ==
  /\ op = "getEpisode"
  /\ ret # <<>>
  /\ \A i \in DOMAIN episodes : ~equalsAt(i, args.guest)
  /\ ~containsAt(1, args.guest)

\* A lookup answered with null.
C18_WitnessNull ==
  /\ op = "getEpisode"
  /\ ret = <<>>
  /\ Len(episodes) >= 2

(***************************************************************************)
(* Properties of the fallback pass.                                        *)
(***************************************************************************)
\* The number of results of the index pass: it takes the guests the index
\* answered in their order and stops when the limit is reached, which it
\* tests after each result.
indexPassCount ==
  Min(Len(firstOccurrences(indexedGuests)), Max(args.limit, 1))

\* The positions of the documents the fallback pass may append: a token of
\* the query occurs in the text, the guest was not seen in the index pass
\* and no earlier such document has the same guest.
fallbackPositions ==
  {i \in DOMAIN episodes :
     /\ tokenOccurs(args.query, episodes[i].content)
     /\ episodes[i].guest \notin Range(indexedGuests)
     /\ \A j \in 1..(i - 1) :
          ~(episodes[j].guest = episodes[i].guest
              /\ tokenOccurs(args.query, episodes[j].content))}

\* The rank of position i among the fallback positions, in corpus order.
fallbackRank(i) == Cardinality({j \in fallbackPositions : j <= i})

\* C19: the fallback pass runs exactly when the index pass produced fewer
\* than limit results; it then appends, behind the results of the index
\* pass and in corpus order, every document not yet seen whose lower-cased
\* text contains a filtered token of the query, and no other document,
\* until the limit is reached.
C19_FallbackPass ==
  Searched =>
    /\ Len(ret) >= indexPassCount
    /\ SubSeq(guestsOf(ret), 1, indexPassCount)
         = SubSeq(firstOccurrences(indexedGuests), 1, indexPassCount)
    /\ indexPassCount >= args.limit => Len(ret) = indexPassCount
    /\ indexPassCount < args.limit =>
         /\ Len(ret) = Min(args.limit,
                           indexPassCount + Cardinality(fallbackPositions))
         /\ \A i \in fallbackPositions :
              indexPassCount + fallbackRank(i) <= Len(ret) =>
                /\ ret[indexPassCount + fallbackRank(i)].guest
                     = episodes[i].guest
                /\ ret[indexPassCount + fallbackRank(i)].snippet
                     = snippetFrom(i)

\* A search in which the index pass gave one result and the fallback pass
\* appended one, stopped by the limit before another matching document.
C19_Witness ==
  /\ Searched
  /\ args.limit = 2
  /\ indexPassCount = 1
  /\ Len(ret) = 2
  /\ Cardinality(fallbackPositions) >= 2

\* A search in which the index pass reached the limit and the fallback pass
\* did not run although a document not yet seen matches.
C19_WitnessNoFallback ==
  /\ Searched
  /\ args.limit >= 1
  /\ indexPassCount = args.limit
  /\ fallbackPositions # {}
  /\ Len(ret) = args.limit

(***************************************************************************)
(* Properties of loadTranscripts.                                          *)
(***************************************************************************)
\* The name of the file that document i was loaded from.
fileNameOf(i) == episodes[i].path[2]

\* C20: the identity of every loaded document is the name of its file
\* without the trailing ".txt" and otherwise unchanged, also when ".txt"
\* occurs earlier in the name, and documents loaded from files of different
\* names have different identities.
C20_IdentityIsNameWithoutExtension ==
  op = "initializeIndex" =>
    /\ \A i \in DOMAIN episodes :
         /\ endsWithTxt(fileNameOf(i))
         /\ episodes[i].guest
              = SubSeq(fileNameOf(i), 1, Len(fileNameOf(i)) - Len(TxtExt))
    /\ \A i, j \in DOMAIN episodes :
         fileNameOf(i) # fileNameOf(j) =>
           episodes[i].guest # episodes[j].guest

(***************************************************************************)
(* Properties of the session map of the HTTP mode.                         *)
(***************************************************************************)
\* Every entry of the session map holds an open transport under the session
\* id of that transport.
onlyLiveTransports ==
  \A p \in transports :
    /\ ~created[p[2]].closed
    /\ created[p[2]].sessionId = p[1]

\* No open transport has the session id: it is unknown, or the transport
\* that had it has been closed.
unknownOrRemoved(sessionId) ==
  \A t \in DOMAIN created :
    created[t].sessionId = sessionId => created[t].closed

\* C21: under every interleaving of POST, GET and DELETE requests on /mcp
\* and of transport close events, the session map holds open transports
\* only, each under its own session id: no entry remains or is added for a
\* transport that has been closed, and a GET whose session id is unknown or
\* was removed is answered with status 400.
C21_SessionMapHoldsLiveTransports ==
  [][/\ onlyLiveTransports'
     /\ \A r \in DOMAIN requests :
          (requests[r] = Idle /\ requests'[r].kind = "GET"
             /\ unknownOrRemoved(requests'[r].sessionId)) =>
            requests'[r].status = 400]_vars

====
